---- MODULE Spec2Model ----
(***************************************************************************)
(* Model of handler.py, the RunPod serverless adapter in front of ComfyUI: *)
(* handler() validates the job, waits for the backend (wait_for_comfy),     *)
(* uploads inline base64 images (replace_base64_images_in_workflow,         *)
(* upload_image_to_comfy), submits the graph (queue_prompt), polls the      *)
(* history (poll_until_done), locates the output file (find_output_file)    *)
(* and returns a record.                                                    *)
(*                                                                         *)
(* Conventions.                                                            *)
(*  - A Python dict that the code only iterates is a sequence in iteration *)
(*    order (dicts keep insertion order); a node's id is its position.     *)
(*  - A dict that the code reads with .get(key, default) is a record whose *)
(*    missing keys hold the value Absent; Get gives the default for them.  *)
(*  - A string is known by an identity, its length and the position of its *)
(*    first '.', which is all the code looks at.                           *)
(*  - The wall clock `now` counts seconds; it advances in time.sleep.  An  *)
(*    HTTP request is taken to answer within the same second.              *)
(*  - The backend is the environment: every response it can give is        *)
(*    chosen nondeterministically.                                         *)
(***************************************************************************)
EXTENDS Integers, Sequences, FiniteSets, TLC

VARIABLES
    pc,          \* position of handler(): start, wait, normalize, submit, poll, locate, done, escaped
    job,         \* the job's input.workflow as received
    workflow,    \* the job graph being processed, mutated in place by normalization
    client_id,   \* uuid of this invocation ("" before it is drawn)
    now,         \* time.time()
    deadline,    \* deadline of the loop in progress (wait_for_comfy, poll_until_done)
    idx,         \* normalization: position of the node the loop is at
    disk,        \* files under COMFY_INPUT_DIR: set of [name, bytes], one per name
    calls,       \* backend calls issued so far, in order
    uploads,     \* upload_image_to_comfy calls that returned: [node, filename, bytes, registered]
    waitSleeps,  \* time.sleep(1) calls made by wait_for_comfy
    pollSleeps,  \* time.sleep(POLL_INTERVAL) calls made by poll_until_done
    pollPending, \* history responses so far that were neither outputs nor error status
    lastHealth,  \* last answer to GET /system_stats
    lastPoll,    \* last answer to GET /history/<prompt_id>
    lastPrompt,  \* answer to POST /prompt
    output_path, \* handler's output_path, the value of find_output_file
    prompt_id,   \* handle returned by queue_prompt ("" before)
    seed_used,   \* value of extract_seed_from_workflow
    outputs,     \* value returned by poll_until_done
    raised,      \* the exception that ended the lifecycle, and the step that raised it
    returned     \* {} until handler returns, then {the record returned}

vars == <<pc, job, workflow, client_id, now, deadline, idx, disk, calls, uploads,
          waitSleeps, pollSleeps, pollPending, lastHealth, lastPoll, lastPrompt,
          output_path, prompt_id, seed_used, outputs, raised, returned>>

-----------------------------------------------------------------------------
(* Bounds of the model *)

\* Nodes in a job graph.
MaxNodes == 2

\* Nodes in an outputs mapping.
MaxOutNodes == 2

\* STARTUP_WAIT (90 s in the source) in seconds of the model's clock.
STARTUP_WAIT == 2

\* POLL_TIMEOUT (600 s in the source) in seconds of the model's clock.
POLL_TIMEOUT == 3

(* Program constants *)

POLL_INTERVAL == 1

\* time.sleep(1) of wait_for_comfy
WAIT_INTERVAL == 1

\* len(image_val) > 256
B64_MIN_LEN == 256

\* image_val[:50]
DOT_WINDOW == 50

-----------------------------------------------------------------------------
(* Values *)

Absent == [kind |-> "absent", id |-> "", len |-> 0, dot |-> 0, int |-> 0]

\* A string: its identity, len(s) and the 1-based position of its first '.' (0: none).
StrVal(id, len, dot) == [kind |-> "str", id |-> id, len |-> len, dot |-> dot, int |-> 0]

IntVal(n) == [kind |-> "int", id |-> "", len |-> 0, dot |-> 0, int |-> n]

\* A bool, which Python counts as an int: True is 1, False is 0.
BoolVal(b) == [kind |-> "bool", id |-> "", len |-> 0, dot |-> 0, int |-> IF b THEN 1 ELSE 0]

\* A node link such as ["12", 0]: neither str nor int.
Link == [kind |-> "list", id |-> "link", len |-> 2, dot |-> 0, int |-> 0]

\* dict.get(key, default)
Get(d, key, default) == IF d[key].kind = "absent" THEN default ELSE d[key]

EmptyStr == StrVal("", 0, 0)

-----------------------------------------------------------------------------
(* Exceptions: the classes the code raises or meets, and Python's subclassing *)

Bases(c) ==
    CASE c = "ConnectTimeout"    -> {"ConnectionError", "Timeout"}
      [] c = "ReadTimeout"       -> {"Timeout"}
      [] c = "ConnectionError"   -> {"RequestException"}
      [] c = "Timeout"           -> {"RequestException"}
      [] c = "HTTPError"         -> {"RequestException"}
      [] c = "RequestException"  -> {"OSError"}
      [] c = "TimeoutError"      -> {"OSError"}
      [] c = "FileNotFoundError" -> {"OSError"}
      [] c = "OSError"           -> {"Exception"}
      [] c = "RuntimeError"      -> {"Exception"}
      [] c = "binascii.Error"    -> {"ValueError"}
      [] c = "ValueError"        -> {"Exception"}
      [] c = "KeyError"          -> {"Exception"}
      [] OTHER                   -> {}

RECURSIVE IsInstance(_, _)
IsInstance(c, d) == c = d \/ \E b \in Bases(c) : IsInstance(b, d)

Exc(cls, msg) == [cls |-> cls, msg |-> msg]

NoRaise == [cls |-> "", msg |-> "", step |-> ""]

\* Transport failures of a requests call.
TransportErrors == {"ConnectionError", "ConnectTimeout", "ReadTimeout"}

\* handler: `except Exception as exc`
HandlerCatchesOnlyRuntime(cls) == IsInstance(cls, "RuntimeError")

HandlerCatches(cls) == IsInstance(cls, "Exception")

\* handler's try/except around the lifecycle: an exception raised in `step`
\* ends the invocation with {"error": str(exc)}, or escapes if it is not caught.
RaiseLogAndContinue(exc, step) ==
    /\ raised' = [cls |-> exc.cls, msg |-> exc.msg, step |-> step]
    /\ IF step = "normalize"
          THEN pc' = "submit" /\ returned' = returned
          ELSE IF HandlerCatches(exc.cls)
          THEN pc' = "done" /\ returned' = {[error |-> exc.msg]}
          ELSE pc' = "escaped" /\ returned' = returned

Raise(exc, step) ==
    /\ raised' = [cls |-> exc.cls, msg |-> exc.msg, step |-> step]
    /\ IF HandlerCatches(exc.cls)
          THEN pc' = "done" /\ returned' = {[error |-> exc.msg]}
          ELSE pc' = "escaped" /\ returned' = returned

-----------------------------------------------------------------------------
(* Job graphs *)

Node(ct, image, seed, noise_seed) ==
    [class_type |-> ct,
     inputs |-> [image |-> image, seed |-> seed, noise_seed |-> noise_seed]]

\* inputs.image values: filenames and inline base64 payloads around the
\* thresholds of the classifier.
ImgFile     == StrVal("photo.png", 9, 6)
ImgLongPath == StrVal("long/path.png", 300, 20)
ImgDot50    == StrVal("name.dot50", 300, 50)
ImgDot51    == StrVal("b64dot51", 300, 51)
Img256      == StrVal("b64len256", 256, 0)
Img257      == StrVal("b64len257", 257, 0)
B64A        == StrVal("b64A", 2000, 0)
B64B        == StrVal("b64B", 400, 0)
B64Bad      == StrVal("b64bad", 301, 0)

ImageVals == {Absent, IntVal(7), Link, ImgFile, ImgLongPath, ImgDot50, ImgDot51,
              Img256, Img257, B64A, B64B, B64Bad}

\* Nodes of the graphs normalization is run on.
NormNodes ==
    {Node("LoadImage", v, Absent, IntVal(7)) : v \in ImageVals}
    \cup {Node("KSampler", v, IntVal(42), Absent) : v \in {Absent, B64A}}

\* Nodes of the graphs a whole invocation is run on.
HandlerNodes ==
    {Node("LoadImage", v, Absent, Absent) : v \in {ImgFile, B64A, B64B, B64Bad}}
    \cup {Node("KSampler", Absent, IntVal(42), Absent),
          Node("CLIPTextEncode", Absent, StrVal("fixed", 5, 0), IntVal(7))}

SeqsUpTo(S, n) == UNION {[1..k -> S] : k \in 1..n}

NormWorkflows == SeqsUpTo(NormNodes, MaxNodes)

HandlerWorkflows == SeqsUpTo(HandlerNodes, MaxNodes)

\* job["input"]["workflow"]: absent, a dict (of nodes, possibly none) or a list.
Job(kind, nodes) == [kind |-> kind, nodes |-> nodes]

HandlerJobs ==
    {Job("absent", <<>>), Job("dict", <<>>), Job("list", <<>>),
     Job("list", <<Node("KSampler", Absent, IntVal(42), Absent)>>)}
    \cup {Job("dict", w) : w \in HandlerWorkflows}

\* Python truth value of the workflow: None and empty containers are false.
Truthy(j) == j.kind # "absent" /\ Len(j.nodes) > 0

\* uuid.uuid4()
ClientIds == {"uuid-1"}

Handles == {"abc123"}

-----------------------------------------------------------------------------
(* Backend responses *)

NoResp == [exc |-> "", status |-> 0]

HealthResponses ==
    {[exc |-> e, status |-> 0] : e \in TransportErrors}
    \cup {[exc |-> "", status |-> s] : s \in {200, 204, 503}}

-----------------------------------------------------------------------------
(* handler: validation *)

MissingWorkflowMsg ==
    "Missing or invalid 'workflow' in input. Expected a ComfyUI API-format workflow dict."

\* `not workflow or not isinstance(workflow, dict)`
InvalidWorkflowNoTypeCheck(j) == ~Truthy(j)

InvalidWorkflow(j) == ~Truthy(j) \/ j.kind # "dict"

\* handler, up to the call of wait_for_comfy (which sets its deadline on entry).
Start ==
    /\ pc = "start"
    /\ IF InvalidWorkflow(job)
          THEN /\ pc' = "done"
               /\ returned' = {[error |-> MissingWorkflowMsg]}
               /\ UNCHANGED <<workflow, client_id, deadline>>
          ELSE /\ pc' = "wait"
               /\ workflow' = job.nodes
               /\ client_id' \in ClientIds
               /\ deadline' = now + STARTUP_WAIT
               /\ returned' = returned
    /\ UNCHANGED <<lastPrompt, output_path, job, now, idx, disk, calls, uploads, waitSleeps, pollSleeps,
                   pollPending, lastHealth, lastPoll, prompt_id, seed_used,
                   outputs, raised>>

-----------------------------------------------------------------------------
(* wait_for_comfy *)

\* `if r.status_code == 200`
HealthReadyNever(r) == FALSE

HealthReadyAnyAnswer(r) == r.exc = ""

HealthReady(r) == r.exc = "" /\ r.status = 200

\* `except requests.exceptions.ConnectionError: pass`
WaitSwallows(cls) == IsInstance(cls, "ConnectionError")

\* One iteration of the loop: the probe, then return, propagation of an
\* exception the loop does not catch, or time.sleep(1).
WaitProbe ==
    /\ pc = "wait"
    /\ now < deadline
    /\ \E r \in HealthResponses :
        /\ calls' = Append(calls, "health")
        /\ lastHealth' = r
        /\ IF HealthReady(r)
              THEN /\ pc' = "normalize"
                   /\ idx' = 1
                   /\ UNCHANGED <<now, waitSleeps, raised, returned>>
              ELSE IF r.exc # "" /\ ~WaitSwallows(r.exc)
              THEN /\ Raise(Exc(r.exc, "health probe failed"), "wait_for_comfy")
                   /\ UNCHANGED <<now, waitSleeps, idx>>
              ELSE /\ now' = now + WAIT_INTERVAL
                   /\ waitSleeps' = waitSleeps + 1
                   /\ UNCHANGED <<pc, idx, raised, returned>>
    /\ UNCHANGED <<lastPrompt, output_path, job, workflow, client_id, deadline, disk, uploads, pollSleeps,
                   pollPending, lastPoll, prompt_id, seed_used, outputs>>

\* The loop condition fails: raise RuntimeError.
WaitTimeout ==
    /\ pc = "wait"
    /\ ~(now < deadline)
    /\ Raise(Exc("RuntimeError", "ComfyUI did not become ready within STARTUP_WAIT s"),
             "wait_for_comfy")
    /\ UNCHANGED <<lastPrompt, output_path, job, workflow, client_id, now, deadline, idx, disk, calls, uploads,
                   waitSleeps, pollSleeps, pollPending, lastHealth, lastPoll,
                   prompt_id, seed_used, outputs>>

-----------------------------------------------------------------------------
(* upload_image_to_comfy *)

\* f"i2v_input_{client_id}.png": 10 + 36 + 4 characters, the '.' at 47.
SessionFilename(cid) == StrVal("i2v_input_" \o cid \o ".png", 50, 47)

\* base64.b64decode: the bytes of a payload, or binascii.Error for bad padding.
B64Valid(v) == v # B64Bad

B64Decode(v) == "bytes(" \o v.id \o ")"

\* A name the backend may store the file under instead of the one asked for.
Renamed(filename) == StrVal("stored_" \o filename.id, filename.len + 7, filename.dot + 7)

\* Path.write_bytes: the file `name` now holds `bytes`, whatever it held.
WriteFile(d, name, bytes) ==
    {f \in d : f.name # name} \cup {[name |-> name, bytes |-> bytes]}

NoExc == Exc("", "")

UploadOutcome(exc, d, posted, registered) ==
    [exc |-> exc, disk |-> d, posted |-> posted, registered |-> registered]

\* Every way upload_image_to_comfy(image_b64, filename) can end on disk d:
\* the exception raised (NoExc: none), the disk after it, whether the POST was
\* issued, and the value returned.
upload_image_to_comfy(image_b64, filename, d) ==
    IF ~B64Valid(image_b64)
    THEN {UploadOutcome(Exc("binascii.Error", "Incorrect padding"), d, FALSE, Absent)}
    ELSE LET written == WriteFile(d, filename.id, B64Decode(image_b64)) IN
         {UploadOutcome(Exc("OSError", "write failed"), d, FALSE, Absent)}
         \cup {UploadOutcome(Exc(e, "upload failed"), written, TRUE, Absent) :
                 e \in TransportErrors}
         \cup {UploadOutcome(Exc("HTTPError", "500 Server Error"), written, TRUE, Absent)}
         \cup {UploadOutcome(NoExc, written, TRUE, Get([name |-> n], "name", filename)) :
                 n \in {Absent, filename, Renamed(filename)}}

-----------------------------------------------------------------------------
(* replace_base64_images_in_workflow *)

\* `"." not in image_val[:50]`, negated
DotInPrefix(v) == v.dot # 0 /\ v.dot <= DOT_WINDOW

\* `isinstance(image_val, str) and len(image_val) > 256 and "." not in image_val[:50]`
IsInlineAtLeast(v) == v.kind = "str" /\ v.len >= B64_MIN_LEN /\ ~DotInPrefix(v)

IsInlineNoLength(v) == v.kind = "str" /\ ~DotInPrefix(v)

IsInline(v) == v.kind = "str" /\ v.len > B64_MIN_LEN /\ ~DotInPrefix(v)

\* `if node.get("class_type") != "LoadImage": continue`, negated
IsImageLoader(node) == node.class_type = "LoadImage"

\* One iteration of `for node_id, node in workflow.items()` of a call made at
\* position `at`; after the last node the function returns the workflow and
\* control is at `after`.
NormalizeBody(at, after) ==
    /\ pc = at
    /\ idx <= Len(workflow)
    /\ LET node      == workflow[idx]
           image_val == Get(node.inputs, "image", EmptyStr)
           last      == idx = Len(workflow)
       IN IF ~IsImageLoader(node) \/ ~IsInline(image_val)
          THEN /\ idx' = idx + 1
               /\ pc' = IF last THEN after ELSE at
               /\ UNCHANGED <<workflow, disk, calls, uploads, raised, returned>>
          ELSE \E o \in upload_image_to_comfy(image_val, SessionFilename(client_id), disk) :
               /\ disk' = o.disk
               /\ calls' = IF o.posted THEN Append(calls, "upload") ELSE calls
               /\ IF o.exc # NoExc
                     THEN /\ Raise(o.exc, "normalize")
                          /\ UNCHANGED <<workflow, uploads, idx>>
                     ELSE /\ workflow' = [workflow EXCEPT ![idx].inputs.image = o.registered]
                          /\ uploads' = Append(uploads,
                                 [node |-> idx, filename |-> SessionFilename(client_id).id,
                                  bytes |-> B64Decode(image_val),
                                  registered |-> o.registered])
                          /\ idx' = idx + 1
                          /\ pc' = IF last THEN after ELSE at
                          /\ UNCHANGED <<raised, returned>>
    /\ UNCHANGED <<lastPrompt, output_path, job, client_id, now, deadline, waitSleeps, pollSleeps, pollPending,
                   lastHealth, lastPoll, prompt_id, seed_used, outputs>>

\* handler: workflow = replace_base64_images_in_workflow(workflow, client_id)
NormalizeStep == NormalizeBody("normalize", "submit")

-----------------------------------------------------------------------------
(* extract_seed_from_workflow *)

\* `for key in ("seed", "noise_seed"): if key in inputs and isinstance(inputs[key], int)`
IsIntInstance(v) == v.kind \in {"int", "bool"}

NodeSeedKeys(inputs) ==
    SelectSeq(<<"seed", "noise_seed">>, LAMBDA key : IsIntInstance(inputs[key]))

NO_SEED == -1

RECURSIVE extract_seed_from_workflow(_)
extract_seed_from_workflow(w) ==
    IF w = <<>> THEN NO_SEED
    ELSE LET keys == NodeSeedKeys(Head(w).inputs) IN
         IF keys # <<>> THEN Head(w).inputs[Head(keys)].int
         ELSE extract_seed_from_workflow(Tail(w))

-----------------------------------------------------------------------------
(* queue_prompt *)

PromptResp(exc, status, error, node_errors, pid) ==
    [exc |-> exc, status |-> status, error |-> error, node_errors |-> node_errors,
     prompt_id |-> pid]

\* Answers to POST /prompt: a transport failure, an HTTP error status (ComfyUI
\* answers 400 with error and node_errors for an invalid graph), or 200 with a
\* body holding prompt_id, error, error and node_errors, or none of them.
PromptResponses ==
    {PromptResp(e, 0, FALSE, FALSE, "") : e \in TransportErrors}
    \cup {PromptResp("", 500, FALSE, FALSE, ""), PromptResp("", 400, TRUE, TRUE, ""),
          PromptResp("", 200, TRUE, TRUE, ""), PromptResp("", 200, TRUE, FALSE, ""),
          PromptResp("", 200, FALSE, FALSE, "")}
    \cup {PromptResp("", 200, FALSE, FALSE, h) : h \in Handles}

NoPrompt == PromptResp("", 0, FALSE, FALSE, "")

\* Response.raise_for_status: HTTPError for a 4xx or 5xx status.
IsHttpError(status) == status >= 400 /\ status < 600

\* queue_prompt on response r: the exception raised (NoExc: none) and the
\* prompt_id returned.
queue_prompt(r) ==
    IF r.exc # "" THEN [exc |-> Exc(r.exc, "POST /prompt failed"), prompt_id |-> ""]
    ELSE IF IsHttpError(r.status)
    THEN [exc |-> Exc("HTTPError", "HTTP error for /prompt"), prompt_id |-> ""]
    ELSE IF r.error
    THEN [exc |-> Exc("RuntimeError",
                      IF r.node_errors
                         THEN "ComfyUI rejected workflow: node_errors"
                         ELSE "ComfyUI rejected workflow: error"),
          prompt_id |-> ""]
    ELSE IF r.prompt_id = ""
    THEN [exc |-> Exc("KeyError", "'prompt_id'"), prompt_id |-> ""]
    ELSE [exc |-> NoExc, prompt_id |-> r.prompt_id]

\* handler: seed_used = extract_seed_from_workflow(workflow), then
\* prompt_id = queue_prompt(workflow, client_id), then the entry of
\* poll_until_done, which sets its deadline.
Submit ==
    /\ pc = "submit"
    /\ seed_used' = extract_seed_from_workflow(workflow)
    /\ calls' = Append(calls, "prompt")
    /\ \E r \in PromptResponses :
        LET o == queue_prompt(r) IN
        /\ lastPrompt' = r
        /\ IF o.exc # NoExc
           THEN /\ Raise(o.exc, "queue_prompt")
                /\ UNCHANGED <<prompt_id, deadline>>
           ELSE /\ prompt_id' = o.prompt_id
                /\ deadline' = now + POLL_TIMEOUT
                /\ pc' = "poll"
                /\ UNCHANGED <<raised, returned>>
    /\ UNCHANGED <<output_path, job, workflow, client_id, now, idx, disk, uploads, waitSleeps,
                   pollSleeps, pollPending, lastHealth, lastPoll, outputs>>

-----------------------------------------------------------------------------
(* Outputs of a finished job *)

\* An output descriptor {filename, subfolder}; the filename is split at its last '.'.
Desc(stem, ext, subfolder) ==
    [filename |-> [stem |-> stem, ext |-> ext], subfolder |-> subfolder]

FramePng == Desc("frame", ".png", "")
ClipMp4  == Desc("clip", ".mp4", "")
AnimGif  == Desc("anim", ".GIF", "sub")

Descs == {FramePng, ClipMp4, AnimGif}

\* One node's outputs; an empty list stands for a missing category as well,
\* which node_output.get(key, []) reads alike.
NodeOutput(gifs, videos, images) == [gifs |-> gifs, videos |-> videos, images |-> images]

CategoryLists == {<<>>, <<FramePng, ClipMp4>>} \cup {<<d>> : d \in Descs}

NodeOutputs ==
    {no \in [gifs : CategoryLists, videos : CategoryLists, images : CategoryLists] :
        Cardinality({k \in {"gifs", "videos", "images"} : no[k] # <<>>}) \in 1..2}

\* Outputs mappings find_output_file is run on.
LocateOutputs == SeqsUpTo(NodeOutputs, MaxOutNodes)

\* Outputs mappings the history endpoint reports in a whole invocation.
PollOutputs ==
    {<<NodeOutput(<<>>, <<ClipMp4>>, <<>>)>>,
     <<NodeOutput(<<>>, <<>>, <<FramePng>>)>>,
     <<NodeOutput(<<>>, <<>>, <<FramePng>>), NodeOutput(<<AnimGif>>, <<>>, <<>>)>>,
     <<NodeOutput(<<>>, <<>>, <<AnimGif>>), NodeOutput(<<>>, <<ClipMp4>>, <<>>)>>}

-----------------------------------------------------------------------------
(* poll_until_done *)

HistoryResp(exc, status, has, status_str, outs) ==
    [exc |-> exc, status |-> status, has |-> has, status_str |-> status_str,
     outputs |-> outs]

NoPoll == HistoryResp("", 0, FALSE, "", <<>>)

\* Answers to GET /history/<prompt_id>: a transport failure, a status other
\* than 200, 200 without the handle, or 200 with an entry for the handle.
HistoryResponses ==
    {HistoryResp(e, 0, FALSE, "", <<>>) : e \in TransportErrors}
    \cup {HistoryResp("", 503, FALSE, "", <<>>), HistoryResp("", 200, FALSE, "", <<>>)}
    \cup {HistoryResp("", 200, TRUE, s, o) :
            s \in {"", "success", "error"}, o \in {<<>>} \cup PollOutputs}

\* `except requests.exceptions.RequestException as exc`
PollSwallowsAll(cls) == IsInstance(cls, "Exception")

PollSwallowsConnectionOnly(cls) == IsInstance(cls, "ConnectionError")

PollSwallows(cls) == IsInstance(cls, "RequestException")

\* `if status.get("status_str") == "error"`
EntryFailed(r) == r.status_str = "error"

\* What one pass through the try block does with response r:
\* "raise" (with the exception), "return" (the outputs), or "fall" through to
\* the sleep.
\* (without `if outputs:`)
PollTryAnyEntry(r) ==
    IF r.exc # "" THEN [do |-> "raise", exc |-> Exc(r.exc, "GET /history failed")]
    ELSE IF r.status = 200 /\ r.has /\ EntryFailed(r)
    THEN [do |-> "raise", exc |-> Exc("RuntimeError", "ComfyUI execution error")]
    ELSE IF r.status = 200 /\ r.has
    THEN [do |-> "return", exc |-> NoExc]
    ELSE [do |-> "fall", exc |-> NoExc]

\* (with `if outputs:` ahead of the status test)
PollTryOutputsFirst(r) ==
    IF r.exc # "" THEN [do |-> "raise", exc |-> Exc(r.exc, "GET /history failed")]
    ELSE IF r.status = 200 /\ r.has /\ r.outputs # <<>>
    THEN [do |-> "return", exc |-> NoExc]
    ELSE IF r.status = 200 /\ r.has /\ EntryFailed(r)
    THEN [do |-> "raise", exc |-> Exc("RuntimeError", "ComfyUI execution error")]
    ELSE [do |-> "fall", exc |-> NoExc]

PollTry(r) ==
    IF r.exc # "" THEN [do |-> "raise", exc |-> Exc(r.exc, "GET /history failed")]
    ELSE IF r.status = 200 /\ r.has /\ EntryFailed(r)
    THEN [do |-> "raise", exc |-> Exc("RuntimeError", "ComfyUI execution error")]
    ELSE IF r.status = 200 /\ r.has /\ r.outputs # <<>>
    THEN [do |-> "return", exc |-> NoExc]
    ELSE [do |-> "fall", exc |-> NoExc]

\* A non-terminal answer: the handle is not in the history, or its entry has
\* neither outputs nor error status.
Pending(r) ==
    /\ r.exc = ""
    /\ r.status = 200
    /\ ~r.has \/ (r.status_str # "error" /\ r.outputs = <<>>)

\* One iteration of the loop: the query, then return, propagation of an
\* exception the loop does not catch, or time.sleep(POLL_INTERVAL).
PollQuery ==
    /\ pc = "poll"
    /\ now < deadline
    /\ \E r \in HistoryResponses :
        LET t == PollTry(r) IN
        /\ calls' = Append(calls, "history")
        /\ lastPoll' = r
        /\ IF t.do = "return"
              THEN /\ outputs' = r.outputs
                   /\ pc' = "locate"
                   /\ UNCHANGED <<now, pollSleeps, pollPending, raised, returned>>
              ELSE IF t.do = "raise" /\ ~PollSwallows(t.exc.cls)
              THEN /\ Raise(t.exc, "poll_until_done")
                   /\ UNCHANGED <<now, pollSleeps, pollPending, outputs>>
              ELSE /\ now' = now + POLL_INTERVAL
                   /\ pollSleeps' = pollSleeps + 1
                   /\ pollPending' = IF Pending(r) THEN pollPending + 1 ELSE pollPending
                   /\ UNCHANGED <<pc, outputs, raised, returned>>
    /\ UNCHANGED <<lastPrompt, output_path, job, workflow, client_id, deadline, idx, disk, uploads, waitSleeps,
                   lastHealth, prompt_id, seed_used>>

\* The loop condition fails: raise TimeoutError.
PollTimeout ==
    /\ pc = "poll"
    /\ ~(now < deadline)
    /\ Raise(Exc("TimeoutError", "Timed out after POLL_TIMEOUT s waiting for prompt"),
             "poll_until_done")
    /\ UNCHANGED <<lastPrompt, output_path, job, workflow, client_id, now, deadline, idx, disk, calls, uploads,
                   waitSleeps, pollSleeps, pollPending, lastHealth, lastPoll,
                   prompt_id, seed_used, outputs>>

-----------------------------------------------------------------------------
(* find_output_file *)

VIDEO_EXTS == {".mp4", ".webp", ".webm", ".gif"}

\* str.lower on the suffixes in use
Lower(ext) ==
    CASE ext = ".GIF" -> ".gif"
      [] ext = ".MP4" -> ".mp4"
      [] OTHER        -> ext

\* `Path(filename).suffix.lower() in VIDEO_EXTS`
RecognizedCaseSensitive(item) == item.filename.ext \in VIDEO_EXTS

Recognized(item) == Lower(item.filename.ext) \in VIDEO_EXTS

\* `for key in ("gifs", "videos", "images"): for item in node_output.get(key, [])`
NodeItems(no) == no.gifs \o no.videos \o no.images

\* All gifs of all nodes, then all videos, then all images.
RECURSIVE CategoryItems(_, _)
CategoryItems(outs, key) ==
    IF outs = <<>> THEN <<>> ELSE Head(outs)[key] \o CategoryItems(Tail(outs), key)

ScanByCategory(outs) ==
    CategoryItems(outs, "gifs") \o CategoryItems(outs, "videos")
        \o CategoryItems(outs, "images")

\* The order in which the nested loops meet the descriptors: node by node.
RECURSIVE ScanOrder(_)
ScanOrder(outs) ==
    IF outs = <<>> THEN <<>> ELSE NodeItems(Head(outs)) \o ScanOrder(Tail(outs))

\* COMFY_OUTPUT_DIR / subfolder / filename
FullPath(item) ==
    [root |-> "/comfyui/output", subfolder |-> item.subfolder, filename |-> item.filename]

NoPath == [root |-> "", subfolder |-> "", filename |-> [stem |-> "", ext |-> ""]]

\* Path.name: the last component
PathNameRelative(p) == p.subfolder \o "/" \o p.filename.stem \o p.filename.ext

PathName(p) == p.filename.stem \o p.filename.ext

\* The first recognized descriptor of a sequence, or none.
FirstRecognized(items) ==
    LET hits == SelectSeq(items, Recognized) IN
    IF hits = <<>> THEN [found |-> FALSE, path |-> NoPath]
    ELSE [found |-> TRUE, path |-> FullPath(Head(hits))]

\* found: the path returned; not found: FileNotFoundError is raised.
find_output_file(outs) == FirstRecognized(ScanOrder(outs))

\* handler: output_path = find_output_file(outputs), then the return of the
\* success record.
Locate ==
    /\ pc = "locate"
    /\ LET o == find_output_file(outputs) IN
       IF ~o.found
          THEN /\ Raise(Exc("FileNotFoundError", "No video/animated file found in ComfyUI outputs"),
                        "find_output_file")
               /\ output_path' = output_path
          ELSE /\ pc' = "done"
               /\ output_path' = o.path
               /\ returned' = {[status    |-> "completed",
                                video_url |-> "/outputs/" \o PathName(o.path),
                                task_id   |-> "job_" \o prompt_id,
                                seed_used |-> seed_used]}
               /\ raised' = raised
    /\ UNCHANGED <<lastPrompt, job, workflow, client_id, now, deadline, idx, disk, calls, uploads,
                   waitSleeps, pollSleeps, pollPending, lastHealth, lastPoll,
                   prompt_id, seed_used, outputs>>

-----------------------------------------------------------------------------
(* Specifications *)

\* A whole invocation of handler(job).
Init ==
    /\ pc = "start"
    /\ job \in HandlerJobs
    /\ workflow = <<>>
    /\ client_id = ""
    /\ now = 0
    /\ deadline = 0
    /\ idx = 1
    /\ disk = {}
    /\ calls = <<>>
    /\ uploads = <<>>
    /\ waitSleeps = 0
    /\ pollSleeps = 0
    /\ pollPending = 0
    /\ lastHealth = NoResp
    /\ lastPoll = NoPoll
    /\ lastPrompt = NoPrompt
    /\ output_path = NoPath
    /\ prompt_id = ""
    /\ seed_used = 0
    /\ outputs = <<>>
    /\ raised = NoRaise
    /\ returned = {}

Next ==
    \/ Start
    \/ WaitProbe
    \/ WaitTimeout
    \/ NormalizeStep
    \/ Submit
    \/ PollQuery
    \/ PollTimeout
    \/ Locate

Spec == Init /\ [][Next]_vars

\* replace_base64_images_in_workflow on every graph of NormWorkflows, from the
\* state in which handler calls it: the first health probe answered 200.
InitNorm ==
    /\ pc = "normalize"
    /\ workflow \in NormWorkflows
    /\ job = Job("dict", workflow)
    /\ client_id \in ClientIds
    /\ now = 0
    /\ deadline = STARTUP_WAIT
    /\ idx = 1
    /\ disk = {}
    /\ calls = <<"health">>
    /\ uploads = <<>>
    /\ waitSleeps = 0
    /\ pollSleeps = 0
    /\ pollPending = 0
    /\ lastHealth = [exc |-> "", status |-> 200]
    /\ lastPoll = NoPoll
    /\ lastPrompt = NoPrompt
    /\ output_path = NoPath
    /\ prompt_id = ""
    /\ seed_used = 0
    /\ outputs = <<>>
    /\ raised = NoRaise
    /\ returned = {}

NextNorm == NormalizeStep

SpecNorm == InitNorm /\ [][NextNorm]_vars

\* find_output_file on every outputs mapping of LocateOutputs, from the state
\* in which handler calls it: the first history query returned the outputs.
\* replace_base64_images_in_workflow applied a second time, to the graph its
\* first application returned: the loop starts again at the first node.
RestartNormalize ==
    /\ pc = "submit"
    /\ pc' = "renormalize"
    /\ idx' = 1
    /\ UNCHANGED <<job, workflow, client_id, now, deadline, disk, calls, uploads,
                   waitSleeps, pollSleeps, pollPending, lastHealth, lastPoll,
                   lastPrompt, output_path, prompt_id, seed_used, outputs, raised,
                   returned>>

RenormalizeStep == NormalizeBody("renormalize", "renormalized")

InitIdem == InitNorm

NextIdem == NormalizeStep \/ RestartNormalize \/ RenormalizeStep

SpecIdem == InitIdem /\ [][NextIdem]_vars

\* Nodes of the graphs extract_seed_from_workflow is run on: seed and
\* noise_seed absent, an int, a string of digits, or a bool.
SeedNodes ==
    {Node("KSampler", Absent, sd, ns) :
        sd \in {Absent, IntVal(42), StrVal("12345", 5, 0), BoolVal(TRUE)},
        ns \in {Absent, IntVal(7), BoolVal(FALSE)}}

SeedWorkflows == SeqsUpTo(SeedNodes, MaxNodes)

\* handler after normalization, which leaves graphs without image loaders as
\* they are: the seed is extracted and the prompt queued.
InitSeed ==
    /\ pc = "submit"
    /\ workflow \in SeedWorkflows
    /\ job = Job("dict", workflow)
    /\ client_id \in ClientIds
    /\ now = 0
    /\ deadline = STARTUP_WAIT
    /\ idx = Len(workflow) + 1
    /\ disk = {}
    /\ calls = <<"health">>
    /\ uploads = <<>>
    /\ waitSleeps = 0
    /\ pollSleeps = 0
    /\ pollPending = 0
    /\ lastHealth = [exc |-> "", status |-> 200]
    /\ lastPoll = NoPoll
    /\ lastPrompt = NoPrompt
    /\ output_path = NoPath
    /\ prompt_id = ""
    /\ seed_used = 0
    /\ outputs = <<>>
    /\ raised = NoRaise
    /\ returned = {}

NextSeed == Submit

SpecSeed == InitSeed /\ [][NextSeed]_vars

InitLocate ==
    /\ pc = "locate"
    /\ outputs \in LocateOutputs
    /\ workflow = <<Node("KSampler", Absent, IntVal(42), Absent)>>
    /\ job = Job("dict", workflow)
    /\ client_id \in ClientIds
    /\ now = 0
    /\ deadline = POLL_TIMEOUT
    /\ idx = 2
    /\ disk = {}
    /\ calls = <<"health", "prompt", "history">>
    /\ uploads = <<>>
    /\ waitSleeps = 0
    /\ pollSleeps = 0
    /\ pollPending = 0
    /\ lastHealth = [exc |-> "", status |-> 200]
    /\ lastPoll = HistoryResp("", 200, TRUE, "success", outputs)
    /\ prompt_id \in Handles
    /\ lastPrompt = PromptResp("", 200, FALSE, FALSE, prompt_id)
    /\ output_path = NoPath
    /\ seed_used = 42
    /\ raised = NoRaise
    /\ returned = {}

NextLocate == Locate

SpecLocate == InitLocate /\ [][NextLocate]_vars

\* handler runs as one sequential process that is never suspended for good:
\* whenever a step is possible, a step is taken.
FairSpec == Spec /\ WF_vars(Next)

-----------------------------------------------------------------------------
(* Properties *)

Count(seq, x) == Len(SelectSeq(seq, LAMBDA c : c = x))

\* The job has no workflow, or one that is empty or not a mapping.
NoUsableWorkflow == job.kind = "absent" \/ Len(job.nodes) = 0 \/ job.kind # "dict"

\* Every lifecycle step of the invocation succeeded.
AllStepsSucceeded ==
    /\ ~NoUsableWorkflow
    /\ raised = NoRaise
    /\ HealthReady(lastHealth)
    /\ prompt_id \in Handles
    /\ outputs # <<>>

\* C1: when handler has returned after every step succeeded (ready, normalized,
\* handle h, outputs O, a descriptor located in O), the record returned is
\* exactly {status: "completed", video_url: "/outputs/" + the located
\* descriptor's filename, task_id: "job_" + h, seed_used: extractSeed(job
\* graph)}; in every other invocation the record returned has the single field
\* error; no record returned carries both status and error, and nothing is
\* returned before the end.
C1_ResultShape ==
    /\ pc \notin {"done", "escaped"} => returned = {}
    /\ pc \in {"done", "escaped"} =>
        /\ Cardinality(returned) = 1
        /\ \A rec \in returned :
            /\ ~({"status", "error"} \subseteq DOMAIN rec)
            /\ IF AllStepsSucceeded
                  THEN LET d == find_output_file(lastPoll.outputs).path.filename IN
                       rec = [status    |-> "completed",
                              video_url |-> "/outputs/" \o d.stem \o d.ext,
                              task_id   |-> "job_" \o prompt_id,
                              seed_used |-> extract_seed_from_workflow(job.nodes)]
                  ELSE DOMAIN rec = {"error"}

\* C1 witness: the end-to-end scenario with one inline image, one poll that is
\* not yet finished and a video under a later node's gifs.
C1_Witness ==
    /\ pc = "done"
    /\ Len(uploads) = 1
    /\ pollSleeps = 1
    /\ returned = {[status |-> "completed", video_url |-> "/outputs/anim.GIF",
                    task_id |-> "job_abc123", seed_used |-> -1]}

\* C2: for a job without workflow, or whose workflow is empty or not a mapping,
\* handler returns {error: "Missing or invalid 'workflow' ..."} and issues no
\* backend call at all.
C2_InvalidInput ==
    NoUsableWorkflow =>
        /\ calls = <<>>
        /\ uploads = <<>>
        /\ disk = {}
        /\ pc \in {"start", "done"}
        /\ pc = "done" => returned = {[error |-> MissingWorkflowMsg]}

\* C2 witness: a non-empty workflow that is a list, rejected.
C2_Witness ==
    /\ pc = "done"
    /\ job.kind = "list"
    /\ Len(job.nodes) > 0
    /\ returned = {[error |-> MissingWorkflowMsg]}

\* C3: an error raised in any lifecycle step is caught by handler and returned
\* as {error: <message>}: no error escapes, once a step has failed nothing more
\* happens (no call, no write, no change at all), and every invocation ends by
\* returning one record.
C3_ErrorsCaught ==
    /\ [](/\ pc # "escaped"
          /\ raised # NoRaise => pc = "done" /\ returned = {[error |-> raised.msg]})
    /\ [][raised # NoRaise => UNCHANGED vars]_vars
    /\ <>(pc = "done" /\ Cardinality(returned) = 1)

\* C3 witness: a request timeout of the upload call, which is no RuntimeError,
\* returned as the failure record.
C3_Witness ==
    /\ pc = "done"
    /\ raised.step = "normalize"
    /\ raised.cls = "ReadTimeout"
    /\ returned = {[error |-> "upload failed"]}

\* A step of wait_for_comfy in which a health probe was issued.
HealthProbed == pc = "wait" /\ calls' = Append(calls, "health")

\* The step slept one second and stayed in the readiness loop.
WaitRetried ==
    /\ pc' = "wait"
    /\ now' = now + WAIT_INTERVAL
    /\ waitSleeps' = waitSleeps + 1
    /\ raised' = NoRaise
    /\ returned' = {}

\* C4: a health probe that fails with any transport error (connection refused,
\* request timeout, ...) is retried after a 1-second sleep, and the prober
\* fails only when the startup timeout has expired.
C4_TransportErrorsRetried ==
    /\ [][HealthProbed /\ lastHealth'.exc \in TransportErrors => WaitRetried]_vars
    /\ [](raised.step = "wait_for_comfy" => now >= deadline)

\* The step returned from wait_for_comfy at this probe, without sleeping.
WaitReturned ==
    /\ pc' = "normalize"
    /\ now' = now
    /\ waitSleeps' = waitSleeps
    /\ raised' = NoRaise

\* C5 as stated: a probe answered with any 2xx status makes the prober return
\* ready at that probe.
C5_Any2xxReady ==
    [][HealthProbed /\ lastHealth'.exc = "" /\ lastHealth'.status \in 200..299
        => WaitReturned]_vars

\* C5 amended: a probe answered with status 200 makes the prober return ready
\* at that probe, with no sleep after it and no further probe (the probes
\* number one more than the sleeps from then on); an answer with any other
\* status, 2xx or not, is not ready and is retried after a 1-second sleep.
C5_Status200Ready ==
    /\ [][HealthProbed /\ lastHealth'.exc = "" =>
            IF lastHealth'.status = 200 THEN WaitReturned ELSE WaitRetried]_vars
    /\ [](pc \in {"normalize", "submit", "poll", "locate"} =>
            /\ lastHealth = [exc |-> "", status |-> 200]
            /\ Count(calls, "health") = waitSleeps + 1)

\* C5 witness: ready at the second probe, after a 204 answer and one sleep.
C5_Witness ==
    /\ pc = "normalize"
    /\ lastHealth.status = 200
    /\ waitSleeps = 1
    /\ Count(calls, "health") = 2

\* poll_until_done has returned outputs (handler is locating, or has returned
\* after locating).
PollDone == pc = "locate" \/ (pc = "done" /\ raised.step \in {"", "find_output_file"} /\ prompt_id # "")

\* C6: when the history endpoint answers N queries with a non-terminal response
\* and the next with non-empty outputs, poll_until_done has issued N+1 queries
\* and slept N times, and returns those outputs unchanged; while it polls every
\* query so far was followed by one sleep, and it times out only after
\* POLL_TIMEOUT seconds of sleeping, so not while N intervals fit in the timeout.
C6_PollReturnsOutputs ==
    /\ pc = "poll" => Count(calls, "history") = pollSleeps
    /\ PollDone =>
        /\ Count(calls, "history") = pollSleeps + 1
        /\ pollPending <= pollSleeps
        /\ lastPoll.outputs # <<>>
        /\ outputs = lastPoll.outputs
    /\ raised.cls = "TimeoutError" => pollSleeps * POLL_INTERVAL >= POLL_TIMEOUT

\* C6 witness: N = 2 non-terminal answers, then outputs.
C6_Witness ==
    /\ pc = "locate"
    /\ pollPending = 2
    /\ pollSleeps = 2
    /\ Count(calls, "history") = 3
    /\ outputs = <<NodeOutput(<<>>, <<ClipMp4>>, <<>>)>>

\* C7: a history response whose entry reports status_str "error" makes
\* poll_until_done fail with the execution error at once: no sleep follows, no
\* further query is made, and the poller's except clause does not swallow it.
C7_ErrorStatusFails ==
    /\ [][(/\ pc = "poll"
           /\ calls' = Append(calls, "history")
           /\ lastPoll'.exc = "" /\ lastPoll'.status = 200 /\ lastPoll'.has
           /\ lastPoll'.status_str = "error")
          => /\ pc' = "done"
             /\ raised' = [cls |-> "RuntimeError", msg |-> "ComfyUI execution error",
                           step |-> "poll_until_done"]
             /\ returned' = {[error |-> "ComfyUI execution error"]}
             /\ pollSleeps' = pollSleeps
             /\ now' = now]_vars
    /\ [](raised.step = "poll_until_done" /\ raised.cls = "RuntimeError" =>
            Count(calls, "history") = pollSleeps + 1)

\* C7 witness: the first history response reports the error; nothing slept.
C7_Witness ==
    /\ pc = "done"
    /\ raised.step = "poll_until_done"
    /\ raised.cls = "RuntimeError"
    /\ Count(calls, "history") = 1
    /\ pollSleeps = 0

DescName(d) == d.filename.stem \o d.filename.ext

HasRecognizedExt(d) == Lower(d.filename.ext) \in {".mp4", ".webp", ".webm", ".gif"}

\* The record handler returned names descriptor d.
Located(d) == \E rec \in returned : "video_url" \in DOMAIN rec /\ rec.video_url = "/outputs/" \o DescName(d)

\* C8 as stated: the located descriptor is the first recognized one when all
\* nodes' gifs are scanned before any node's videos, and all videos before any
\* node's images.
C8_CategoryBeforeNode ==
    pc = "done" =>
        LET hits == SelectSeq(ScanByCategory(outputs), HasRecognizedExt) IN
        IF hits = <<>> THEN raised.cls = "FileNotFoundError" ELSE Located(Head(hits))

CategoryRank(key) == CASE key = "gifs" -> 1 [] key = "videos" -> 2 [] key = "images" -> 3

\* Position (node n, category k, index j) of the outputs comes before
\* (n2, k2, j2) when the nodes are taken in order and, within a node, gifs
\* before videos before images.
NodeFirstBefore(n, k, j, n2, k2, j2) ==
    \/ n < n2
    \/ n = n2 /\ CategoryRank(k) < CategoryRank(k2)
    \/ n = n2 /\ k = k2 /\ j < j2

Positions(outs) ==
    UNION {{<<n, k, j>> : j \in 1..Len(outs[n][k])} :
             n \in 1..Len(outs), k \in {"gifs", "videos", "images"}}

\* C8 amended: the located descriptor is the first recognized one when the
\* nodes are scanned in the outputs' order and, within each node, gifs before
\* videos before images: the category priority holds within a node only, so a
\* recognized descriptor of an earlier node is chosen over one in a
\* higher-priority category of a later node, and a descriptor with an
\* unrecognized extension is never chosen; if none is recognized the locator
\* fails.
C8_NodeBeforeCategory ==
    pc = "done" =>
        LET rec == {p \in Positions(outputs) : HasRecognizedExt(outputs[p[1]][p[2]][p[3]])} IN
        IF rec = {}
           THEN raised.cls = "FileNotFoundError" /\ \A r \in returned : DOMAIN r = {"error"}
        ELSE \E p \in rec :
                /\ \A q \in rec : q = p \/ NodeFirstBefore(p[1], p[2], p[3], q[1], q[2], q[3])
                /\ Located(outputs[p[1]][p[2]][p[3]])

\* C8 witness: a recognized image of the first node wins over a video of the
\* second.
C8_Witness ==
    /\ pc = "done"
    /\ outputs = <<NodeOutput(<<>>, <<>>, <<AnimGif>>), NodeOutput(<<>>, <<ClipMp4>>, <<>>)>>
    /\ Located(AnimGif)

\* The node is an image loader whose image is a string of more than 256
\* characters with no '.' among its first 50.
ClassifiedInline(node) ==
    /\ node.class_type = "LoadImage"
    /\ node.inputs.image.kind = "str"
    /\ node.inputs.image.len > 256
    /\ node.inputs.image.dot = 0 \/ node.inputs.image.dot > 50

UploadsOf(i) == SelectSeq(uploads, LAMBDA u : u.node = i)

\* C9: normalization rewrites inputs.image of a node exactly when the node is
\* an image loader and the value is a string longer than 256 characters with
\* no '.' in its first 50; every other node (no image loader, a value of at
\* most 256 characters, a long value with an early '.', a value that is no
\* string), every other field and every node not yet reached is as it was, and
\* upload calls are made only for classified nodes.
C9_NormalizeFrame ==
    /\ Len(workflow) = Len(job.nodes)
    /\ \A i \in 1..Len(workflow) :
        LET orig == job.nodes[i]
            cur  == workflow[i]
        IN /\ cur.class_type = orig.class_type
           /\ cur.inputs.seed = orig.inputs.seed
           /\ cur.inputs.noise_seed = orig.inputs.noise_seed
           /\ IF i < idx /\ ClassifiedInline(orig)
                 THEN /\ Len(UploadsOf(i)) = 1
                      /\ cur.inputs.image = UploadsOf(i)[1].registered
                      /\ cur.inputs.image # orig.inputs.image
                 ELSE /\ UploadsOf(i) = <<>>
                      /\ cur.inputs.image = orig.inputs.image
    /\ Count(calls, "upload") <=
          Cardinality({i \in 1..Len(workflow) : i <= idx /\ ClassifiedInline(job.nodes[i])})

\* C9 witness: a long filename with an early '.' left alone, and a payload with
\* its first '.' at position 51 rewritten.
C9_Witness ==
    /\ pc = "submit"
    /\ Len(workflow) = 2
    /\ job.nodes[1].inputs.image = ImgLongPath
    /\ workflow[1] = job.nodes[1]
    /\ job.nodes[2].inputs.image = ImgDot51
    /\ workflow[2].inputs.image = Renamed(SessionFilename(client_id))

\* C10: after normalization has succeeded, every inline image-loading node
\* holds the filename the upload endpoint returned for its upload, and the
\* file written for it in the input directory holds its own decoded bytes.
C10_RoundTrip ==
    pc = "submit" =>
        \A k \in 1..Len(uploads) :
            /\ workflow[uploads[k].node].inputs.image = uploads[k].registered
            /\ [name |-> uploads[k].filename, bytes |-> uploads[k].bytes] \in disk

\* Rank of a backend call in the lifecycle's order.
CallRank(c) ==
    CASE c = "health" -> 1 [] c = "upload" -> 2 [] c = "prompt" -> 3 [] c = "history" -> 4

\* C11: within one invocation the backend calls come in the order health
\* probes, image uploads, one prompt POST, history GETs: an upload or prompt
\* POST is made only after a health probe answered 200, a history GET only
\* after the prompt POST returned a handle, the prompt POST at most once (a
\* rejected submission is not retried), and no call after handler returned.
C11_CallOrder ==
    /\ [](/\ \A i, j \in 1..Len(calls) : i < j => CallRank(calls[i]) <= CallRank(calls[j])
          /\ Count(calls, "prompt") <= 1
          /\ Count(calls, "upload") + Count(calls, "prompt") > 0 =>
                /\ Count(calls, "health") > 0
                /\ lastHealth = [exc |-> "", status |-> 200]
          /\ Count(calls, "history") > 0 =>
                /\ Count(calls, "prompt") = 1
                /\ prompt_id \in Handles
                /\ lastPrompt.prompt_id = prompt_id)
    /\ [][returned # {} => calls' = calls]_vars

\* C11 witness: two probes, two uploads, the prompt POST and two history GETs.
C11_Witness ==
    /\ pc = "done"
    /\ calls = <<"health", "health", "upload", "upload", "prompt", "history", "history">>
    /\ \E rec \in returned : "status" \in DOMAIN rec

\* An answer to a history query that is neither outputs nor an execution
\* error: a transport error, a status other than 200, a history without the
\* handle, or an entry with neither error status nor outputs.
NonTerminal(r) ==
    \/ r.exc # ""
    \/ r.status # 200
    \/ ~r.has
    \/ r.status_str # "error" /\ r.outputs = <<>>

\* poll_until_done has been entered and left.
PollEnded == prompt_id # "" /\ pc # "poll"

PollFailed ==
    /\ raised = [cls |-> "RuntimeError", msg |-> "ComfyUI execution error",
                 step |-> "poll_until_done"]
    /\ outputs = <<>>

PollTimedOut ==
    /\ raised.step = "poll_until_done"
    /\ raised.cls = "TimeoutError"
    /\ outputs = <<>>

\* C12: poll_until_done retries without an attempt budget: a query answered by
\* a transport error, a status other than 200, a history without the handle,
\* or an entry with neither error status nor outputs raises nothing, sleeps
\* POLL_INTERVAL and leaves the loop running. With the clock advancing at each
\* sleep the loop ends, in exactly one of outputs returned, execution error
\* and timeout, and the timeout is raised only once POLL_TIMEOUT seconds have
\* passed since the loop was entered.
C12_DeadlineBoundedRetry ==
    /\ [][(/\ pc = "poll"
           /\ calls' = Append(calls, "history")
           /\ NonTerminal(lastPoll'))
          => /\ pc' = "poll"
             /\ raised' = NoRaise
             /\ returned' = {}
             /\ outputs' = <<>>
             /\ now' = now + POLL_INTERVAL
             /\ pollSleeps' = pollSleeps + 1
             /\ deadline' = deadline]_vars
    /\ [](pc = "poll" => now = deadline - POLL_TIMEOUT + pollSleeps * POLL_INTERVAL)
    /\ [](PollEnded =>
            /\ PollDone \/ PollFailed \/ PollTimedOut
            /\ ~(PollDone /\ PollFailed)
            /\ ~(PollDone /\ PollTimedOut)
            /\ ~(PollFailed /\ PollTimedOut))
    /\ [](PollTimedOut =>
            /\ now >= deadline
            /\ now - (deadline - POLL_TIMEOUT) >= POLL_TIMEOUT
            /\ Count(calls, "history") = pollSleeps)
    /\ (pc = "poll" ~> PollEnded)

\* C12 witness: every query until the deadline met a read timeout, and the
\* loop ended with the timeout.
C12_Witness ==
    /\ PollTimedOut
    /\ lastPoll.exc = "ReadTimeout"
    /\ pollSleeps * POLL_INTERVAL = POLL_TIMEOUT
    /\ Count(calls, "history") = POLL_TIMEOUT

\* C13: when the decode, the write or the upload call of an image loader
\* fails during normalization, handler returns the record with the single
\* field error; the invocation has issued and will issue no prompt POST and
\* no history GET, and the failing node and every node after it are as the
\* job gave them, with no upload made for them.
C13_NormalizeAborts ==
    /\ [](raised.step = "normalize" =>
            /\ pc = "done"
            /\ returned = {[error |-> raised.msg]}
            /\ Count(calls, "prompt") = 0
            /\ Count(calls, "history") = 0
            /\ prompt_id = ""
            /\ idx \in 1..Len(workflow)
            /\ ClassifiedInline(job.nodes[idx])
            /\ \A i \in idx..Len(workflow) :
                /\ workflow[i] = job.nodes[i]
                /\ UploadsOf(i) = <<>>
            /\ Count(calls, "upload") <= idx)
    /\ [][raised.step = "normalize" =>
            /\ calls' = calls
            /\ uploads' = uploads
            /\ workflow' = workflow
            /\ returned' = returned]_vars

\* C13 witness: the upload of the first of two inline image loaders is
\* answered with an HTTP error; the second is never uploaded.
C13_Witness ==
    /\ pc = "done"
    /\ raised.step = "normalize"
    /\ raised.cls = "HTTPError"
    /\ idx = 1
    /\ Len(workflow) = 2
    /\ ClassifiedInline(job.nodes[2])
    /\ workflow[2] = job.nodes[2]
    /\ calls = <<"health", "upload">>

\* C14: one application of normalization rewrites the image of every node it
\* classifies as inline exactly once and of no node twice; applied again to
\* the graph it returned it changes no field, writes no file and issues no
\* upload, because no value it wrote is classified as inline.
C14_Idempotent ==
    /\ [](\A i \in 1..Len(workflow) :
            /\ Len(UploadsOf(i)) <= 1
            /\ (pc \in {"submit", "renormalize", "renormalized"}
                    /\ ClassifiedInline(job.nodes[i])) =>
                /\ Len(UploadsOf(i)) = 1
                /\ workflow[i].inputs.image = UploadsOf(i)[1].registered
                /\ ~ClassifiedInline(workflow[i]))
    /\ [][pc = "renormalize" =>
            /\ workflow' = workflow
            /\ uploads' = uploads
            /\ calls' = calls
            /\ disk' = disk
            /\ raised' = NoRaise
            /\ pc' \in {"renormalize", "renormalized"}]_vars
    /\ [](pc = "renormalized" =>
            /\ idx = Len(workflow) + 1
            /\ Count(calls, "upload") = Len(uploads)
            /\ Len(uploads) = Cardinality({i \in 1..Len(workflow) :
                                              ClassifiedInline(job.nodes[i])}))

\* C14 witness: the second application has passed over a graph whose two
\* images the first one replaced, one by the name the endpoint chose.
C14_Witness ==
    /\ pc = "renormalized"
    /\ Len(workflow) = 2
    /\ Len(uploads) = 2
    /\ workflow[1].inputs.image = SessionFilename(client_id)
    /\ workflow[2].inputs.image = Renamed(SessionFilename(client_id))
    /\ calls = <<"health", "upload", "upload">>

\* C15: whenever the body of the answer to POST /prompt carries an error
\* field, queue_prompt fails with the rejection, reporting node_errors when the
\* body has that field and the top-level error otherwise; no handle is
\* returned and polling does not start. When the body carries no error field,
\* the body's prompt_id is returned as the handle.
C15_ErrorFieldRejects ==
    [][(pc = "submit" /\ calls' = Append(calls, "prompt")) =>
          /\ (lastPrompt'.exc = "" /\ lastPrompt'.error) =>
                /\ raised' = [cls  |-> "RuntimeError",
                              msg  |-> IF lastPrompt'.node_errors
                                          THEN "ComfyUI rejected workflow: node_errors"
                                          ELSE "ComfyUI rejected workflow: error",
                              step |-> "queue_prompt"]
                /\ prompt_id' = ""
                /\ pc' = "done"
          /\ (lastPrompt'.exc = "" /\ lastPrompt'.status = 200 /\ ~lastPrompt'.error
                    /\ lastPrompt'.prompt_id # "") =>
                /\ prompt_id' = lastPrompt'.prompt_id
                /\ pc' = "poll"
                /\ raised' = NoRaise]_vars

\* C16: find_output_file raises FileNotFoundError exactly when no descriptor
\* of any node's gifs, videos or images has an extension that, in lower case,
\* is one of .mp4, .webp, .webm, .gif; otherwise it returns the path
\* COMFY_OUTPUT_DIR / subfolder / filename of a descriptor of the outputs
\* whose extension is one of them, never of one with another extension.
C16_NotFoundIffNoneRecognized ==
    pc = "done" =>
        LET rec == {p \in Positions(outputs) : HasRecognizedExt(outputs[p[1]][p[2]][p[3]])} IN
        /\ (raised.cls = "FileNotFoundError" /\ raised.step = "find_output_file") <=> rec = {}
        /\ rec = {} => output_path = NoPath
        /\ rec # {} =>
            /\ raised = NoRaise
            /\ \E p \in rec :
                LET d == outputs[p[1]][p[2]][p[3]] IN
                output_path = [root |-> "/comfyui/output", subfolder |-> d.subfolder,
                               filename |-> d.filename]
            /\ \A p \in Positions(outputs) \ rec :
                output_path.filename # outputs[p[1]][p[2]][p[3]].filename

\* C16 witness: the only recognized descriptor has its extension in upper
\* case and lies in a subfolder, next to a .png frame.
C16_Witness ==
    /\ pc = "done"
    /\ outputs = <<NodeOutput(<<>>, <<>>, <<FramePng>>), NodeOutput(<<AnimGif>>, <<>>, <<>>)>>
    /\ output_path = [root |-> "/comfyui/output", subfolder |-> "sub",
                      filename |-> [stem |-> "anim", ext |-> ".GIF"]]

\* C17: a history entry for the handle that has both status_str "error" and
\* non-empty outputs makes poll_until_done raise the execution error, and its
\* outputs are not returned: the status is tested before the outputs, so the
\* outputs poll_until_done returns come from an entry whose status is not
\* "error".
C17_ErrorBeforeOutputs ==
    /\ [][(/\ pc = "poll"
           /\ calls' = Append(calls, "history")
           /\ lastPoll'.exc = "" /\ lastPoll'.status = 200 /\ lastPoll'.has
           /\ lastPoll'.status_str = "error"
           /\ lastPoll'.outputs # <<>>)
          => /\ raised'.cls = "RuntimeError"
             /\ raised'.step = "poll_until_done"
             /\ outputs' = <<>>
             /\ pc' \notin {"poll", "locate"}]_vars
    /\ [](outputs # <<>> =>
            /\ outputs = lastPoll.outputs
            /\ lastPoll.has
            /\ lastPoll.status_str # "error")
    /\ [](lastPoll.status_str = "error" => output_path = NoPath /\ pc # "locate")

\* C17 witness: the entry reports the error together with outputs holding a
\* video; the invocation failed and no outputs were taken.
C17_Witness ==
    /\ pc = "done"
    /\ raised.step = "poll_until_done"
    /\ lastPoll.status_str = "error"
    /\ lastPoll.outputs = <<NodeOutput(<<>>, <<ClipMp4>>, <<>>)>>
    /\ outputs = <<>>
    /\ \E rec \in returned : DOMAIN rec = {"error"}

\* The seed fields of graph w whose value is an integer, as <<node, rank>>
\* with rank 1 for seed and 2 for noise_seed.
SeedKey(rank) == IF rank = 1 THEN "seed" ELSE "noise_seed"

IntegerSeedFields(w) ==
    {p \in (1..Len(w)) \X {1, 2} : w[p[1]].inputs[SeedKey(p[2])].kind = "int"}

\* C18: extract_seed_from_workflow returns the value of the first field named
\* seed or noise_seed whose value is an integer, nodes taken in the graph's
\* order and seed before noise_seed within a node; a field of those names
\* with a value that is no integer is skipped, -1 is returned when no field
\* qualifies, the graph is left as it was and nothing is raised.
C18_FirstIntegerSeed ==
    [][(pc = "submit" /\ calls' = Append(calls, "prompt")) =>
          LET hits == IntegerSeedFields(workflow) IN
          /\ IF hits = {}
                THEN seed_used' = -1
                ELSE \E p \in hits :
                        /\ \A q \in hits :
                              p[1] < q[1] \/ (p[1] = q[1] /\ p[2] <= q[2])
                        /\ seed_used' = workflow[p[1]].inputs[SeedKey(p[2])].int
          /\ workflow' = workflow
          /\ raised'.step \in {"", "queue_prompt"}]_vars

====
